---- MODULE Spec2Model ----
(***************************************************************************)
(* A model of cot_fetch.py: one scheduled run fetches the yearly ZIP of    *)
(* the Disaggregated Futures-Only COT report (with bounded retry), picks   *)
(* an archive member, loads it, finds the report-date column, keeps the    *)
(* rows of the maximum report date and writes them to a date-stamped and   *)
(* a "latest" pair of files under OUT_DIR/<year>/.                         *)
(*                                                                         *)
(* Text (file names, column names, cells) is a sequence of one-character   *)
(* strings, so that lower(), endswith(), "in", re.sub() and strftime()     *)
(* are computed as the code computes them.  Times are in milliseconds.     *)
(***************************************************************************)
EXTENDS Integers, Sequences, FiniteSets, TLC

VARIABLES
    pc,           \* position of main() in the current run
    runs,         \* completed invocations of the script
    clock_year,   \* ny_now.year of the current run
    years,        \* years still to fetch (main, line 74)
    frames,       \* tables fetched so far (main, line 75)
    attempt,      \* tenacity's attempt_number of the current http_get_bytes call
    responses,    \* what requests.get gave on each attempt of the current call
    slept,        \* the waits tenacity slept between the attempts of the call
    zbytes,       \* the body http_get_bytes returned
    member,       \* the archive entry fetch_year chose
    df_all,       \* the concatenated table
    date_col,     \* the column find_date_col returned
    latest_date,  \* dates.max()
    latest_week,  \* the rows of the maximum date
    error,        \* the exception that ended the run, if any
    dirs,         \* the year directories that exist under OUT_DIR
    fs,           \* the files under OUT_DIR: path -> content
    dirs0,        \* dirs when the current run started
    fs0,          \* fs when the current run started
    log           \* per completed run: outcome, maximum date, rows, dates seen

vars == <<pc, runs, clock_year, years, frames, attempt, responses, slept, zbytes,
          member, df_all, date_col, latest_date, latest_week, error, dirs, fs,
          dirs0, fs0, log>>

----------------------------------------------------------------------------
(* Bounds of the model *)

MaxRuns == 2
MaxYearsBack == 1
MaxNames == 3
MaxCols == 3
MaxRows == 4
MaxIOErrors == 1

(* Program constants *)

StopAfterAttempt == 4
WaitMultiplier == 800
WaitMin == 1000
WaitMax == 10000
ErrorStatus == 400
WRITE_PARQUET == TRUE

----------------------------------------------------------------------------
(* Text *)

UpperChars == <<"A", "B", "C", "D", "E", "F", "G", "H", "I", "J", "K", "L", "M", "N", "O", "P", "Q", "R", "S", "T", "U", "V", "W", "X", "Y", "Z">>
LowerChars == <<"a", "b", "c", "d", "e", "f", "g", "h", "i", "j", "k", "l", "m", "n", "o", "p", "q", "r", "s", "t", "u", "v", "w", "x", "y", "z">>
DigitChars == <<"0", "1", "2", "3", "4", "5", "6", "7", "8", "9">>

Range(s) == {s[i] : i \in DOMAIN s}

\* str.lower() on one character
LowerChar(c) ==
    IF c \in Range(UpperChars)
    THEN LowerChars[CHOOSE i \in DOMAIN UpperChars : UpperChars[i] = c]
    ELSE c

\* str.lower()
lower(s) == [i \in DOMAIN s |-> LowerChar(s[i])]

\* str.endswith(suffix)
endswith(s, suffix) ==
    /\ Len(s) >= Len(suffix)
    /\ SubSeq(s, Len(s) - Len(suffix) + 1, Len(s)) = suffix

\* sub in s
contains(s, sub) ==
    \E i \in 1..(Len(s) - Len(sub) + 1) : SubSeq(s, i, i + Len(sub) - 1) = sub

IsDigit(c) == c \in Range(DigitChars)

DigitVal(c) == (CHOOSE i \in DOMAIN DigitChars : DigitChars[i] = c) - 1

\* int() of a run of digits
RECURSIVE ToInt(_)
ToInt(s) ==
    IF s = << >> THEN 0
    ELSE 10 * ToInt(SubSeq(s, 1, Len(s) - 1)) + DigitVal(s[Len(s)])

\* a number printed in exactly w digits, zero padded (%Y, %m, %d and str(int))
RECURSIVE Digits(_, _)
Digits(n, w) ==
    IF w = 0 THEN << >>
    ELSE Append(Digits(n \div 10, w - 1), DigitChars[(n % 10) + 1])

----------------------------------------------------------------------------
(* http_get_bytes: the tenacity policy of lines 26-31 *)

HttpError(status, year) ==
    [type |-> "HttpError", status |-> status, year |-> year, msg |-> "status for url"]

RuntimeError(msg) ==
    [type |-> "RuntimeError", status |-> 0, year |-> 0, msg |-> msg]

OtherError(type) ==
    [type |-> type, status |-> 0, year |-> 0, msg |-> ""]

NoError == [type |-> "None", status |-> 0, year |-> 0, msg |-> ""]

\* line 34: r.status_code >= 400
StatusFails(status) == status >= ErrorStatus

\* every exception retried
retry_if_any_exception(exc) == TRUE

\* retry=retry_if_exception_type(HttpError)
retry_if_exception_type(exc) == exc.type = "HttpError"

\* the attempt budget one short
stop_one_early(attempt_number) == attempt_number >= StopAfterAttempt - 1

\* stop=stop_after_attempt(4)
stop_after_attempt(attempt_number) == attempt_number >= StopAfterAttempt

RECURSIVE Pow2(_)
Pow2(n) == IF n = 0 THEN 1 ELSE 2 * Pow2(n - 1)

Min2(a, b) == IF a < b THEN a ELSE b
Max2(a, b) == IF a > b THEN a ELSE b

\* the backoff without its lower bound
wait_exponential_no_min(attempt_number) ==
    Min2(WaitMultiplier * Pow2(attempt_number - 1), WaitMax)

\* wait=wait_exponential(multiplier=0.8, min=1, max=10):
\* max(min, min(multiplier * 2 ** (attempt_number - 1), max))
wait_exponential(attempt_number) ==
    Max2(WaitMin, Min2(WaitMultiplier * Pow2(attempt_number - 1), WaitMax))

\* the exception the body of http_get_bytes raises on a response, or NoError
RequestException(r, year) ==
    IF r.exc # "" THEN OtherError(r.exc)
    ELSE IF StatusFails(r.status) THEN HttpError(r.status, year)
    ELSE NoError

----------------------------------------------------------------------------
(* fetch_year: member selection and loading *)

TabularExtensions == {<<".", "t", "x", "t">>, <<".", "c", "s", "v">>}

\* the extension compared without lower()
IsTabularCaseSensitive(n) == \E e \in TabularExtensions : endswith(n, e)

IsTabular(n) == \E e \in TabularExtensions : endswith(lower(n), e)

\* next((n for n in names if n.lower().endswith((".txt", ".csv"))), names[0])
SelectMember(names) ==
    IF \E i \in DOMAIN names : IsTabular(names[i])
    THEN names[CHOOSE i \in DOMAIN names :
                   /\ IsTabular(names[i])
                   /\ \A j \in 1..(i - 1) : ~IsTabular(names[j])]
    ELSE names[1]

\* zf.namelist()
namelist(zf) == [i \in DOMAIN zf |-> zf[i].name]

\* zf.open(member).read(): ZipFile keeps, for a name, the entry added last
ReadMember(zf, name) ==
    zf[CHOOSE i \in DOMAIN zf :
           zf[i].name = name /\ \A j \in (i + 1)..Len(zf) : zf[j].name # name].data

ZipEmpty == RuntimeError("Zip archive empty.")

\* pd.read_csv: the first line is the header, the others are the rows
read_csv_keep_schema(b) == [columns |-> b[1], rows |-> SubSeq(b, 2, Len(b))]

\* DataFrame.to_csv(index=False): the header line, then the rows
to_csv(df) == <<df.columns>> \o df.rows

\* DataFrame.to_parquet(index=False): the table itself
to_parquet(df) == df

----------------------------------------------------------------------------
(* main: concatenation, date column, latest week *)

\* a missing value (an empty cell; a column a frame does not have)
NaN == << >>

\* the position of column c in a list of columns
ColIndex(columns, c) == CHOOSE i \in DOMAIN columns : columns[i] = c

\* the columns of pd.concat: those of the first frame, then the new ones of each next
RECURSIVE ConcatColumns(_)
ConcatColumns(fr) ==
    IF fr = << >> THEN << >>
    ELSE LET before == ConcatColumns(SubSeq(fr, 1, Len(fr) - 1))
         IN  before \o SelectSeq(fr[Len(fr)].columns, LAMBDA c : c \notin Range(before))

\* a row of frame f laid out on the columns cols, NaN where f has no such column
Realign(f, row, cols) ==
    [i \in DOMAIN cols |->
        IF cols[i] \in Range(f.columns) THEN row[ColIndex(f.columns, cols[i])] ELSE NaN]

RECURSIVE ConcatRows(_, _)
ConcatRows(fr, cols) ==
    IF fr = << >> THEN << >>
    ELSE LET f == fr[Len(fr)]
         IN  ConcatRows(SubSeq(fr, 1, Len(fr) - 1), cols)
             \o [i \in DOMAIN f.rows |-> Realign(f, f.rows[i], cols)]

\* pd.concat(frames, ignore_index=True)
concat(fr) ==
    LET cols == ConcatColumns(fr)
    IN  [columns |-> cols, rows |-> ConcatRows(fr, cols)]

candidates ==
    << <<"R", "e", "p", "o", "r", "t", "_", "D", "a", "t", "e", "_", "a", "s", "_", "Y", "Y", "Y", "Y", "-", "M", "M", "-", "D", "D">>,
       <<"R", "e", "p", "o", "r", "t", "_", "D", "a", "t", "e", "_", "a", "s", "_", "Y", "Y", "Y", "Y", "_", "M", "M", "_", "D", "D">>,
       <<"A", "s", "_", "o", "f", "_", "D", "a", "t", "e", "_", "I", "n", "_", "F", "o", "r", "m", "_", "Y", "Y", "M", "M", "D", "D">> >>

IsAlnumLower(c) == c \in Range(DigitChars) \cup Range(LowerChars)

\* the name lowercased but its separators kept
normKeepSeparators(s) == lower(s)

\* re.sub(r"[^0-9a-z]+", "", s.lower())
norm(s) == SelectSeq(lower(s), IsAlnumLower)

\* {norm(c): c for c in df.columns}: a later column replaces an earlier one of the same key
cmap(columns) ==
    [k \in {norm(columns[i]) : i \in DOMAIN columns} |->
        columns[CHOOSE i \in DOMAIN columns :
                    /\ norm(columns[i]) = k
                    /\ \A j \in (i + 1)..Len(columns) : norm(columns[j]) # k]]

\* line 67
IsReportDate(c) == contains(lower(c), <<"r", "e", "p", "o", "r", "t">>) /\ contains(lower(c), <<"d", "a", "t", "e">>)

NoDateColumn == RuntimeError("Could not locate a report date column.")

\* find_date_col: [raised, value], value the column or the error
find_date_col(df) ==
    LET cm == cmap(df.columns)
        hits == {i \in DOMAIN candidates : norm(candidates[i]) \in DOMAIN cm}
        fall == {i \in DOMAIN df.columns : IsReportDate(df.columns[i])}
    IN  IF hits # {}
        THEN [raised |-> FALSE,
              value |-> cm[norm(candidates[CHOOSE i \in hits : \A j \in hits : i <= j])]]
        ELSE IF fall # {}
        THEN [raised |-> FALSE,
              value |-> df.columns[CHOOSE i \in fall : \A j \in fall : i <= j]]
        ELSE [raised |-> TRUE, value |-> NoDateColumn]

\* the invalid date marker; a valid date is year*10000 + month*100 + day
NaT == 0

IsLeap(y) == (y % 4 = 0 /\ y % 100 # 0) \/ y % 400 = 0

DaysInMonth(y, m) ==
    IF m = 2 THEN (IF IsLeap(y) THEN 29 ELSE 28)
    ELSE IF m \in {4, 6, 9, 11} THEN 30 ELSE 31

\* pd.to_datetime(cell, errors="coerce") on a YYYY-MM-DD text; anything else is NaT
to_datetime(cell) ==
    IF /\ Len(cell) = 10
       /\ cell[5] = "-" /\ cell[8] = "-"
       /\ \A i \in {1, 2, 3, 4, 6, 7, 9, 10} : IsDigit(cell[i])
    THEN LET y == ToInt(SubSeq(cell, 1, 4))
             m == ToInt(SubSeq(cell, 6, 7))
             d == ToInt(SubSeq(cell, 9, 10))
         IN  IF y >= 1 /\ m \in 1..12 /\ d \in 1..DaysInMonth(y, m)
             THEN y * 10000 + m * 100 + d
             ELSE NaT
    ELSE NaT

\* line 79: the parsed date of every row
ParseDates(df, col) ==
    [i \in DOMAIN df.rows |-> to_datetime(df.rows[i][ColIndex(df.columns, col)])]

\* the minimum taken instead of the maximum
SeriesMin(dates) ==
    LET valid == {dates[i] : i \in DOMAIN dates} \ {NaT}
    IN  IF valid = {} THEN NaT ELSE CHOOSE d \in valid : \A e \in valid : d <= e

\* Series.max(): NaT is skipped; NaT when nothing is left
SeriesMax(dates) ==
    LET valid == {dates[i] : i \in DOMAIN dates} \ {NaT}
    IN  IF valid = {} THEN NaT ELSE CHOOSE d \in valid : \A e \in valid : e <= d

\* line 81: pd.isna(latest_date)
isna(d) == d = NaT

\* the week taken as a range of seven days instead of one date
DateMaskWeek(dates, latest) ==
    [i \in DOMAIN dates |-> dates[i] # NaT /\ latest - dates[i] <= 7]

\* dates == latest_date, row by row; NaT equals nothing
DateMask(dates, latest) == [i \in DOMAIN dates |-> dates[i] # NaT /\ dates[i] = latest]

\* the kept positions of a mask, in order
RECURSIVE MaskIndices(_)
MaskIndices(mask) ==
    IF mask = << >> THEN << >>
    ELSE LET rest == MaskIndices(SubSeq(mask, 1, Len(mask) - 1))
         IN  IF mask[Len(mask)] THEN Append(rest, Len(mask)) ELSE rest

\* df_all.loc[dates == latest_date].copy()
loc(df, mask) ==
    LET idx == MaskIndices(mask)
    IN  [columns |-> df.columns, rows |-> [i \in DOMAIN idx |-> df.rows[idx[i]]]]

AllNaT == RuntimeError("All report dates are NaT; cannot proceed.")

\* Timestamp.year
YearOf(d) == d \div 10000

\* latest_date.strftime("%Y-%m-%d")
strftime(d) ==
    Digits(d \div 10000, 4) \o <<"-">> \o Digits((d \div 100) % 100, 2) \o <<"-">> \o Digits(d % 100, 2)

\* str(latest_date.year)
YearStr(y) == Digits(y, 4)

----------------------------------------------------------------------------
(* main: the output paths, a path being the year directory and the file name *)

Prefix == <<"c", "o", "t", "_", "d", "i", "s", "a", "g", "g", "_", "f", "u", "t", "_">>

\* line 92
hist_base(d) == Prefix \o strftime(d)

\* the "latest" name stamped with the date instead of the year
latest_base_of_date(d) == Prefix \o <<"l", "a", "t", "e", "s", "t", "_">> \o strftime(d)

\* line 93
latest_base(d) == Prefix \o <<"l", "a", "t", "e", "s", "t", "_">> \o YearStr(YearOf(d))

\* the directory named after the clock's year instead of the report's
year_dir_of_clock(d) == YearStr(clock_year)

\* line 88: OUT_DIR / str(latest_date.year)
year_dir(d) == YearStr(YearOf(d))

\* year_dir / base, with_suffix(ext)
PathOf(d, base, ext) == [dir |-> year_dir(d), file |-> base \o ext]

\* writing a file replaces its content and leaves the other files alone
WriteFile(files, path, content) ==
    [p \in DOMAIN files \cup {path} |-> IF p = path THEN content ELSE files[p]]

----------------------------------------------------------------------------
(* What the environment can give a run *)

\* ny_now.year
ClockYears == {2024, 2025}

\* the final status of requests.get, redirects followed
Statuses == {200, 400, 503}

\* an exception of requests.get itself
TransportExceptions == {"ConnectTimeout"}

MarketCol == <<"M", "a", "r", "k", "e", "t", "_", "a", "n", "d", "_", "E", "x", "c", "h", "a", "n", "g", "e", "_", "N", "a", "m", "e", "s">>
ReportDateCol == <<"R", "e", "p", "o", "r", "t", "_", "D", "a", "t", "e", "_", "a", "s", "_", "Y", "Y", "Y", "Y", "-", "M", "M", "-", "D", "D">>
Header == <<MarketCol, ReportDateCol>>

Csv2024 ==
    << Header,
       <<<<"W", "H", "E", "A", "T">>, <<"2", "0", "2", "4", "-", "1", "2", "-", "2", "4">>>>,
       <<<<"C", "O", "R", "N">>, <<"2", "0", "2", "4", "-", "1", "2", "-", "3", "1">>>>,
       <<<<"W", "H", "E", "A", "T">>, <<"2", "0", "2", "4", "-", "1", "2", "-", "3", "1">>>> >>

Csv2024Early == << Header, <<<<"W", "H", "E", "A", "T">>, <<"2", "0", "2", "4", "-", "1", "2", "-", "2", "4">>>> >>

Csv2025 == << Header, <<<<"W", "H", "E", "A", "T">>, <<"2", "0", "2", "5", "-", "0", "1", "-", "0", "7">>>> >>

CsvBadDates == << Header, <<<<"W", "H", "E", "A", "T">>, <<"T", "B", "D">>>> >>

CsvNoDate == << <<MarketCol, <<"O", "p", "e", "n", "_", "I", "n", "t", "e", "r", "e", "s", "t", "_", "A", "l", "l">>>>, <<<<"W", "H", "E", "A", "T">>, <<"1", "0", "0">>>> >>

Readme == << <<<<"s", "e", "e", " ", "f", "_", "y", "e", "a", "r", ".", "t", "x", "t">>>> >>

\* the archives a year's URL can serve, an archive being its entries in order
Archives(year) ==
    IF year = 2024
    THEN { <<[name |-> <<"r", "e", "a", "d", "m", "e", ".", "m", "d">>, data |-> Readme], [name |-> <<"f", "_", "y", "e", "a", "r", ".", "T", "X", "T">>, data |-> Csv2024]>>,
           <<[name |-> <<"f", "_", "y", "e", "a", "r", ".", "t", "x", "t">>, data |-> Csv2024Early]>> }
    ELSE IF year = 2025
    THEN { <<[name |-> <<"a", "n", "n", "u", "a", "l", ".", "c", "s", "v">>, data |-> Csv2025]>>,
           <<[name |-> <<"a", "n", "n", "u", "a", "l">>, data |-> CsvBadDates]>>,
           <<[name |-> <<"c", "_", "y", "e", "a", "r", ".", "t", "x", "t">>, data |-> CsvNoDate]>> }
    ELSE { << >> }

\* what requests.get can do on one attempt for a year's URL
Responses(year) ==
    { [status |-> 200, content |-> z, exc |-> ""] : z \in Archives(year) \cup { << >> } }
    \cup { [status |-> st, content |-> << >>, exc |-> ""] : st \in Statuses \ {200} }
    \cup { [status |-> 0, content |-> << >>, exc |-> e] : e \in TransportExceptions }

----------------------------------------------------------------------------
(* The state before the first run, and between runs *)

EmptyTable == [columns |-> << >>, rows |-> << >>]

NoLog == [all_ok |-> TRUE, io_errors |-> 0, seen |-> {}, last |-> << >>]

Locals0 ==
    /\ years = << >>
    /\ frames = << >>
    /\ attempt = 1
    /\ responses = << >>
    /\ slept = << >>
    /\ zbytes = << >>
    /\ member = << >>
    /\ df_all = EmptyTable
    /\ date_col = << >>
    /\ latest_date = NaT
    /\ latest_week = EmptyTable
    /\ error = NoError

Files0 ==
    /\ runs = 0
    /\ dirs = {}
    /\ fs = << >>
    /\ dirs0 = {}
    /\ fs0 = << >>
    /\ log = NoLog

Init ==
    /\ pc = "idle"
    /\ clock_year = 2024
    /\ Locals0
    /\ Files0

----------------------------------------------------------------------------
(* main, step by step *)

\* the output directory of the clock's year made before anything is fetched
StartMakingDir(cy, years_back) ==
    /\ pc = "idle"
    /\ runs < MaxRuns
    /\ cy >= clock_year
    /\ clock_year' = cy
    /\ years' = [i \in 1..(years_back + 1) |-> cy - years_back + i - 1]
    /\ pc' = "request"
    /\ fs0' = fs
    /\ dirs0' = dirs
    /\ dirs' = dirs \cup {YearStr(cy)}
    /\ UNCHANGED <<runs, frames, attempt, responses, slept, zbytes, member, df_all,
                   date_col, latest_date, latest_week, error, fs, log>>

\* range(YEARS_BACK, -1, -1): the oldest year first
YearsOf(cy, years_back) == [i \in 1..(years_back + 1) |-> cy - years_back + i - 1]

\* lines 72-75: a run starts, with the clock and YEARS_BACK of its environment
Start(cy, years_back) ==
    /\ pc = "idle"
    /\ runs < MaxRuns
    /\ cy >= clock_year
    /\ clock_year' = cy
    /\ years' = YearsOf(cy, years_back)
    /\ pc' = "request"
    /\ fs0' = fs
    /\ dirs0' = dirs
    /\ UNCHANGED <<runs, frames, attempt, responses, slept, zbytes, member, df_all,
                   date_col, latest_date, latest_week, error, dirs, fs, log>>

\* reraise=True: the exception of the last attempt itself
Reraise(exc) == exc

\* lines 32-36 under the retry policy: one attempt of http_get_bytes
Request(r) ==
    /\ pc = "request"
    /\ responses' = Append(responses, r)
    /\ LET exc == RequestException(r, Head(years))
       IN  IF exc = NoError
           THEN /\ zbytes' = r.content
                /\ pc' = "unzip"
                /\ error' = error
           ELSE IF retry_if_exception_type(exc) /\ ~stop_after_attempt(attempt)
           THEN /\ pc' = "sleep"
                /\ UNCHANGED <<zbytes, error>>
           ELSE /\ pc' = "failed"
                /\ error' = (IF retry_if_exception_type(exc) THEN Reraise(exc) ELSE exc)
                /\ zbytes' = zbytes
    /\ UNCHANGED <<runs, clock_year, years, frames, attempt, slept, member, df_all,
                   date_col, latest_date, latest_week, dirs, fs, dirs0, fs0, log>>

\* an attempt answers with whatever the URL of the year being fetched gives
http_get_bytes ==
    /\ pc = "request"
    /\ \E r \in Responses(Head(years)) : Request(r)

\* tenacity sleeps, then starts the next attempt
Sleep ==
    /\ pc = "sleep"
    /\ slept' = Append(slept, wait_exponential(attempt))
    /\ attempt' = attempt + 1
    /\ pc' = "request"
    /\ UNCHANGED <<runs, clock_year, years, frames, responses, zbytes, member, df_all,
                   date_col, latest_date, latest_week, error, dirs, fs, dirs0, fs0, log>>

\* lines 45-55: the rest of fetch_year, then the next year or the end of line 75
Unzip ==
    /\ pc = "unzip"
    /\ LET names == namelist(zbytes)
       IN  IF names = << >>
           THEN /\ pc' = "failed"
                /\ error' = ZipEmpty
                /\ UNCHANGED <<member, frames, years>>
           ELSE LET m == SelectMember(names)
                    b == ReadMember(zbytes, m)
                IN  /\ member' = m
                    /\ IF b = << >>
                       THEN /\ pc' = "failed"
                            /\ error' = OtherError("EmptyDataError")
                            /\ UNCHANGED <<frames, years>>
                       ELSE /\ frames' = Append(frames, read_csv_keep_schema(b))
                            /\ years' = Tail(years)
                            /\ pc' = (IF Tail(years) = << >> THEN "resolve" ELSE "request")
                            /\ error' = error
    /\ attempt' = 1
    /\ responses' = << >>
    /\ slept' = << >>
    /\ UNCHANGED <<runs, clock_year, zbytes, df_all, date_col, latest_date, latest_week,
                   dirs, fs, dirs0, fs0, log>>

\* lines 76-78
FindDateCol ==
    /\ pc = "resolve"
    /\ LET df == concat(frames)
           r == find_date_col(df)
       IN  /\ df_all' = df
           /\ IF r.raised
              THEN /\ pc' = "failed"
                   /\ error' = r.value
                   /\ date_col' = date_col
              ELSE /\ pc' = "select"
                   /\ date_col' = r.value
                   /\ error' = error
    /\ frames' = << >>
    /\ UNCHANGED <<runs, clock_year, years, attempt, responses, slept, zbytes, member,
                   latest_date, latest_week, dirs, fs, dirs0, fs0, log>>

\* lines 79-85
SelectLatest ==
    /\ pc = "select"
    /\ LET dates == ParseDates(df_all, date_col)
           latest == SeriesMax(dates)
       IN  /\ latest_date' = latest
           /\ IF isna(latest)
              THEN /\ pc' = "failed"
                   /\ error' = AllNaT
                   /\ latest_week' = latest_week
              ELSE /\ pc' = "mkdir"
                   /\ latest_week' = loc(df_all, DateMask(dates, latest))
                   /\ error' = error
    /\ UNCHANGED <<runs, clock_year, years, frames, attempt, responses, slept, zbytes,
                   member, df_all, date_col, dirs, fs, dirs0, fs0, log>>

\* line 89: year_dir.mkdir(parents=True, exist_ok=True)
Mkdir ==
    /\ pc = "mkdir"
    /\ dirs' = dirs \cup {year_dir(latest_date)}
    /\ pc' = "hist_csv"
    /\ UNCHANGED <<runs, clock_year, years, frames, attempt, responses, slept, zbytes,
                   member, df_all, date_col, latest_date, latest_week, error, fs,
                   dirs0, fs0, log>>

\* the position after a CSV write: the parquet write, unless WRITE_PARQUET is off
AfterCsv(parquet_pc, next_pc) == IF WRITE_PARQUET THEN parquet_pc ELSE next_pc

\* line 96
WriteHistCsv ==
    /\ pc = "hist_csv"
    /\ fs' = WriteFile(fs, PathOf(latest_date, hist_base(latest_date), <<".", "c", "s", "v">>),
                       to_csv(latest_week))
    /\ pc' = AfterCsv("hist_parquet", "latest_csv")
    /\ UNCHANGED <<runs, clock_year, years, frames, attempt, responses, slept, zbytes,
                   member, df_all, date_col, latest_date, latest_week, error, dirs,
                   dirs0, fs0, log>>

\* line 99
WriteHistParquet ==
    /\ pc = "hist_parquet"
    /\ fs' = WriteFile(fs, PathOf(latest_date, hist_base(latest_date), <<".", "p", "a", "r", "q", "u", "e", "t">>),
                       to_parquet(latest_week))
    /\ pc' = "latest_csv"
    /\ UNCHANGED <<runs, clock_year, years, frames, attempt, responses, slept, zbytes,
                   member, df_all, date_col, latest_date, latest_week, error, dirs,
                   dirs0, fs0, log>>

\* line 103
WriteLatestCsv ==
    /\ pc = "latest_csv"
    /\ fs' = WriteFile(fs, PathOf(latest_date, latest_base(latest_date), <<".", "c", "s", "v">>),
                       to_csv(latest_week))
    /\ pc' = AfterCsv("latest_parquet", "done")
    /\ UNCHANGED <<runs, clock_year, years, frames, attempt, responses, slept, zbytes,
                   member, df_all, date_col, latest_date, latest_week, error, dirs,
                   dirs0, fs0, log>>

\* line 106
WriteLatestParquet ==
    /\ pc = "latest_parquet"
    /\ fs' = WriteFile(fs, PathOf(latest_date, latest_base(latest_date), <<".", "p", "a", "r", "q", "u", "e", "t">>),
                       to_parquet(latest_week))
    /\ pc' = "done"
    /\ UNCHANGED <<runs, clock_year, years, frames, attempt, responses, slept, zbytes,
                   member, df_all, date_col, latest_date, latest_week, error, dirs,
                   dirs0, fs0, log>>

WriterPcs == {"mkdir", "hist_csv", "hist_parquet", "latest_csv", "latest_parquet"}

\* an unwritable path: mkdir or a write raises, and the run ends there
IOError ==
    /\ pc \in WriterPcs
    /\ log.io_errors < MaxIOErrors
    /\ pc' = "failed"
    /\ error' = OtherError("OSError")
    /\ UNCHANGED <<runs, clock_year, years, frames, attempt, responses, slept, zbytes,
                   member, df_all, date_col, latest_date, latest_week, dirs, fs,
                   dirs0, fs0, log>>

\* the valid report dates a finished run has parsed
DatesSeen == {d \in Range(ParseDates(df_all, date_col)) : d # NaT}

\* the process exits; what the run saw and wrote is recorded for the next ones
Finish ==
    /\ pc \in {"done", "failed"}
    /\ runs' = runs + 1
    /\ pc' = "idle"
    /\ log' = IF pc = "done"
              THEN [all_ok |-> log.all_ok,
                    io_errors |-> log.io_errors,
                    seen |-> log.seen \cup DatesSeen,
                    last |-> WriteFile(log.last, year_dir(latest_date), latest_week)]
              ELSE [log EXCEPT !.all_ok = FALSE,
                               !.io_errors = @ + (IF error.type = "OSError" THEN 1 ELSE 0)]
    /\ years' = << >>
    /\ frames' = << >>
    /\ attempt' = 1
    /\ responses' = << >>
    /\ slept' = << >>
    /\ zbytes' = << >>
    /\ member' = << >>
    /\ df_all' = EmptyTable
    /\ date_col' = << >>
    /\ latest_date' = NaT
    /\ latest_week' = EmptyTable
    /\ error' = NoError
    /\ UNCHANGED <<clock_year, dirs, fs, dirs0, fs0>>

Next ==
    \/ \E cy \in ClockYears, yb \in 0..MaxYearsBack : Start(cy, yb)
    \/ http_get_bytes
    \/ Sleep
    \/ Unzip
    \/ FindDateCol
    \/ SelectLatest
    \/ Mkdir
    \/ WriteHistCsv
    \/ WriteHistParquet
    \/ WriteLatestCsv
    \/ WriteLatestParquet
    \/ IOError
    \/ Finish

Spec == Init /\ [][Next]_vars

----------------------------------------------------------------------------
(* fetch_year's member selection on every short list of entry names *)

SeqsUpTo(S, n) == UNION {[1..k -> S] : k \in 0..n}

MemberNames ==
    { <<"r", "e", "a", "d", "m", "e", ".", "m", "d">>, <<"f", "_", "y", "e", "a", "r", ".", "T", "X", "T">>, <<"a", "n", "n", "u", "a", "l", ".", "c", "s", "v">>, <<"n", "o", "t", "e", "s", ".", "t", "x", "t", ".", "b", "a", "k">>, <<"D", "a", "t", "a", ".", "C", "s", "v">>, <<"t", "x", "t">> }

\* an archive with these entry names; an entry's data names the entry and its position
ArchiveOf(names) ==
    [i \in DOMAIN names |-> [name |-> names[i], data |-> << <<names[i]>>, <<Digits(i, 1)>> >>]]

InitMember ==
    /\ pc = "unzip"
    /\ clock_year = 2025
    /\ years = <<2025>>
    /\ \E names \in SeqsUpTo(MemberNames, MaxNames) : zbytes = ArchiveOf(names)
    /\ frames = << >>
    /\ attempt = 1
    /\ responses = << >>
    /\ slept = << >>
    /\ member = << >>
    /\ df_all = EmptyTable
    /\ date_col = << >>
    /\ latest_date = NaT
    /\ latest_week = EmptyTable
    /\ error = NoError
    /\ Files0

SpecMember == InitMember /\ [][Unzip]_vars

----------------------------------------------------------------------------
(* find_date_col on every short list of distinct column names *)

ColumnNames ==
    { <<"R", "e", "p", "o", "r", "t", "_", "D", "a", "t", "e", "_", "a", "s", "_", "Y", "Y", "Y", "Y", "-", "M", "M", "-", "D", "D">>,
      <<"r", "e", "p", "o", "r", "t", "_", "d", "a", "t", "e", "_", "a", "s", "_", "y", "y", "y", "y", "_", "m", "m", "_", "d", "d">>,
      <<"A", "s", "_", "o", "f", "_", "D", "a", "t", "e", "_", "I", "n", "_", "F", "o", "r", "m", "_", "Y", "Y", "M", "M", "D", "D">>,
      <<"R", "e", "p", "o", "r", "t", " ", "D", "a", "t", "e">>,
      <<"D", "a", "t", "e", "_", "o", "f", "_", "R", "e", "p", "o", "r", "t">>,
      <<"R", "E", "P", "O", "R", "T", "-", "D", "A", "T", "E", "-", "A", "S", "-", "Y", "Y", "Y", "Y", "-", "M", "M", "-", "D", "D">>,
      <<"R", "e", "p", "o", "r", "t", "e", "d">>,
      <<"M", "a", "r", "k", "e", "t", "_", "a", "n", "d", "_", "E", "x", "c", "h", "a", "n", "g", "e", "_", "N", "a", "m", "e", "s">> }

\* read_csv never gives two columns the same name
Distinct(s) == \A i, j \in DOMAIN s : i # j => s[i] # s[j]

InitDateCol ==
    /\ pc = "resolve"
    /\ clock_year = 2025
    /\ years = << >>
    /\ \E cols \in SeqsUpTo(ColumnNames, MaxCols) :
           /\ Distinct(cols)
           /\ frames = << [columns |-> cols, rows |-> << >>] >>
    /\ zbytes = << >>
    /\ attempt = 1
    /\ responses = << >>
    /\ slept = << >>
    /\ member = << >>
    /\ df_all = EmptyTable
    /\ date_col = << >>
    /\ latest_date = NaT
    /\ latest_week = EmptyTable
    /\ error = NoError
    /\ Files0

SpecDateCol == InitDateCol /\ [][FindDateCol]_vars

----------------------------------------------------------------------------
(* the latest-week selection on every short table of report dates *)

DateCells ==
    { <<"2", "0", "2", "4", "-", "0", "1", "-", "0", "2">>, <<"2", "0", "2", "4", "-", "0", "1", "-", "0", "9">>, <<"2", "0", "2", "3", "-", "1", "2", "-", "2", "6">>, <<"2", "0", "2", "4", "-", "0", "2", "-", "3", "0">>, <<"T", "B", "D">>, NaN }

Markets == << <<"W", "H", "E", "A", "T">>, <<"C", "O", "R", "N">>, <<"S", "O", "Y", "B", "E", "A", "N", "S">>, <<"C", "O", "T", "T", "O", "N">>, <<"S", "U", "G", "A", "R">> >>

\* a table of the two columns whose i-th row is the i-th market with the i-th date cell
TableOf(cells) ==
    [columns |-> Header, rows |-> [i \in DOMAIN cells |-> <<Markets[i], cells[i]>>]]

InitLatest ==
    /\ pc = "select"
    /\ clock_year = 2025
    /\ years = << >>
    /\ \E cells \in SeqsUpTo(DateCells, MaxRows) : df_all = TableOf(cells)
    /\ date_col = ReportDateCol
    /\ frames = << >>
    /\ zbytes = << >>
    /\ attempt = 1
    /\ responses = << >>
    /\ slept = << >>
    /\ member = << >>
    /\ latest_date = NaT
    /\ latest_week = EmptyTable
    /\ error = NoError
    /\ Files0

SpecLatest == InitLatest /\ [][SelectLatest]_vars

----------------------------------------------------------------------------
(* Claims about the member selection, checked under SpecMember *)

\* the name ends with .txt or .csv in any mix of cases
HasTabularExtension(n) ==
    /\ Len(n) >= 4
    /\ n[Len(n) - 3] = "."
    /\ \/ /\ n[Len(n) - 2] \in {"t", "T"}
          /\ n[Len(n) - 1] \in {"x", "X"}
          /\ n[Len(n)] \in {"t", "T"}
       \/ /\ n[Len(n) - 2] \in {"c", "C"}
          /\ n[Len(n) - 1] \in {"s", "S"}
          /\ n[Len(n)] \in {"v", "V"}

EntryNames == [i \in DOMAIN zbytes |-> zbytes[i].name]

TabularEntries == {i \in DOMAIN EntryNames : HasTabularExtension(EntryNames[i])}

\* C6: once fetch_year has opened the archive: an empty archive raises the explicit
\* error; otherwise the member is the first entry, in archive order, whose name ends
\* case-insensitively with .txt or .csv, wherever it stands in the archive; and with
\* no such entry the member is the archive's first entry.
C6_MemberSelection ==
    pc # "unzip" =>
        IF EntryNames = << >>
        THEN pc = "failed" /\ error = ZipEmpty
        ELSE /\ pc = "resolve"
             /\ error = NoError
             /\ IF TabularEntries # {}
                THEN \E i \in TabularEntries :
                         /\ \A j \in TabularEntries : i <= j
                         /\ member = EntryNames[i]
                ELSE member = EntryNames[1]

\* a tabular entry that is not the archive's first entry was selected over it
C6_Witness ==
    /\ pc = "resolve"
    /\ Len(zbytes) >= 2
    /\ ~HasTabularExtension(EntryNames[1])
    /\ TabularEntries # {}
    /\ member # EntryNames[1]
    /\ member = <<"f", "_", "y", "e", "a", "r", ".", "T", "X", "T">>

----------------------------------------------------------------------------
(* Claims about find_date_col, checked under SpecDateCol *)

\* a name lowercased, its characters other than 0-9 and a-z removed, one at a time
RECURSIVE Normalized(_)
Normalized(s) ==
    IF s = << >> THEN << >>
    ELSE LET c == s[1]
             k == IF \E i \in 1..26 : UpperChars[i] = c
                  THEN LowerChars[CHOOSE i \in 1..26 : UpperChars[i] = c]
                  ELSE c
         IN  (IF k \in Range(LowerChars) \cup Range(DigitChars) THEN <<k>> ELSE << >>)
             \o Normalized(Tail(s))

ReportDateKey == <<"r", "e", "p", "o", "r", "t", "d", "a", "t", "e", "a", "s", "y", "y", "y", "y", "m", "m", "d", "d">>
AsOfDateKey == <<"a", "s", "o", "f", "d", "a", "t", "e", "i", "n", "f", "o", "r", "m", "y", "y", "m", "m", "d", "d">>

ColumnsWithKey(k) == {i \in DOMAIN df_all.columns : Normalized(df_all.columns[i]) = k}

\* the columns whose lowercase name holds both "report" and "date"
FallbackColumns ==
    {i \in DOMAIN df_all.columns :
        LET l == [j \in DOMAIN df_all.columns[i] |-> LowerChar(df_all.columns[i][j])]
        IN  /\ \E a \in 1..(Len(l) - 5) : SubSeq(l, a, a + 5) = <<"r", "e", "p", "o", "r", "t">>
            /\ \E a \in 1..(Len(l) - 3) : SubSeq(l, a, a + 3) = <<"d", "a", "t", "e">>}

\* C7: once find_date_col has run: the two Report_Date names normalize to one key; a
\* column of that key is returned before one of the As_of_Date key, and a column of
\* either key before any fallback column, whatever the column order; with no such
\* column the first column whose lowercase name holds "report" and "date" is
\* returned; and with none of those the explicit error is raised.
C7_DateColumn ==
    pc # "resolve" =>
      /\ norm(candidates[1]) = ReportDateKey
      /\ norm(candidates[2]) = ReportDateKey
      /\ norm(candidates[3]) = AsOfDateKey
      /\ \A i \in DOMAIN df_all.columns : norm(df_all.columns[i]) = Normalized(df_all.columns[i])
      /\ IF ColumnsWithKey(ReportDateKey) # {}
        THEN pc = "select" /\ \E i \in ColumnsWithKey(ReportDateKey) : date_col = df_all.columns[i]
        ELSE IF ColumnsWithKey(AsOfDateKey) # {}
        THEN pc = "select" /\ \E i \in ColumnsWithKey(AsOfDateKey) : date_col = df_all.columns[i]
        ELSE IF FallbackColumns # {}
        THEN /\ pc = "select"
             /\ \E i \in FallbackColumns :
                    /\ \A j \in FallbackColumns : i <= j
                    /\ date_col = df_all.columns[i]
        ELSE pc = "failed" /\ error = NoDateColumn

\* a Report_Date column written with other separators and case was returned although
\* a fallback column and an As_of_Date column stand before it
C7_Witness ==
    /\ pc = "select"
    /\ Len(df_all.columns) = 3
    /\ 1 \in FallbackColumns \ ColumnsWithKey(ReportDateKey)
    /\ 2 \in ColumnsWithKey(AsOfDateKey)
    /\ date_col = df_all.columns[3]
    /\ date_col = <<"R", "E", "P", "O", "R", "T", "-", "D", "A", "T", "E", "-", "A", "S", "-", "Y", "Y", "Y", "Y", "-", "M", "M", "-", "D", "D">>

----------------------------------------------------------------------------
(* Claims about the latest-week selection, checked under SpecLatest *)

\* what pandas makes of each date cell of the tables checked
KnownDate(cell) ==
    CASE cell = <<"2", "0", "2", "4", "-", "0", "1", "-", "0", "2">> -> 20240102
      [] cell = <<"2", "0", "2", "4", "-", "0", "1", "-", "0", "9">> -> 20240109
      [] cell = <<"2", "0", "2", "3", "-", "1", "2", "-", "2", "6">> -> 20231226
      [] OTHER -> 0

RowDate(row) == KnownDate(row[2])

RowDates == {RowDate(df_all.rows[i]) : i \in DOMAIN df_all.rows} \ {0}

MaxRowDate == CHOOSE d \in RowDates : \A e \in RowDates : e <= d

Selected == pc # "select"

ThreeRows == TableOf(<< <<"2", "0", "2", "4", "-", "0", "1", "-", "0", "2">>, <<"2", "0", "2", "4", "-", "0", "1", "-", "0", "2">>, <<"2", "0", "2", "4", "-", "0", "1", "-", "0", "9">> >>)

\* C4 as stated: of the rows dated 2024-01-02, 2024-01-02 and 2024-01-09 the selection
\* returns exactly the two rows dated 2024-01-02.
C4_AsStated ==
    (Selected /\ df_all = ThreeRows) =>
        latest_week.rows = << ThreeRows.rows[1], ThreeRows.rows[2] >>

\* C4 amended: of the rows dated 2024-01-02, 2024-01-02 and 2024-01-09 the selection
\* returns exactly the one row dated 2024-01-09, the maximum date.
C4_LatestOfThree ==
    (Selected /\ df_all = ThreeRows) =>
        /\ pc = "mkdir"
        /\ latest_date = 20240109
        /\ latest_week.rows = << ThreeRows.rows[3] >>

\* the selection has run on the three rows
C4_Witness ==
    /\ pc = "mkdir"
    /\ df_all = ThreeRows
    /\ Len(latest_week.rows) = 1

\* C5: for a table with at least one parseable date the selection raises nothing and
\* returns, in table order, exactly the rows whose date is the maximum parseable
\* date: every row tied at the maximum, no row of a smaller date, no unparsable row.
C5_ExactlyMaxRows ==
    (Selected /\ RowDates # {}) =>
        /\ pc = "mkdir"
        /\ error = NoError
        /\ latest_date = MaxRowDate
        /\ latest_week.columns = df_all.columns
        /\ \A i \in DOMAIN df_all.rows :
               (RowDate(df_all.rows[i]) = MaxRowDate) <=> (df_all.rows[i] \in Range(latest_week.rows))
        /\ Range(latest_week.rows) \subseteq Range(df_all.rows)
        /\ \A i, j \in DOMAIN latest_week.rows :
               i < j => \E a, b \in DOMAIN df_all.rows :
                            a < b /\ df_all.rows[a] = latest_week.rows[i]
                                  /\ df_all.rows[b] = latest_week.rows[j]

\* two rows tied at the maximum were kept, a smaller date and an unparsable one dropped
C5_Witness ==
    /\ pc = "mkdir"
    /\ Len(df_all.rows) = 4
    /\ Len(latest_week.rows) = 2
    /\ \E i \in DOMAIN df_all.rows : RowDate(df_all.rows[i]) = 0
    /\ \E i \in DOMAIN df_all.rows : RowDate(df_all.rows[i]) \notin {0, MaxRowDate}

----------------------------------------------------------------------------
(* Claims about http_get_bytes, checked under Spec *)

\* the response is an HTTP response of status 400 or more
Failed(r) == r.exc = "" /\ r.status >= 400

\* the response is an HTTP response of a status below 400
Succeeded(r) == r.exc = "" /\ r.status < 400

\* the request itself raised (a timeout, a reset connection)
Broke(r) == r.exc # ""

\* C1: a call issues at most 4 requests; after 3 failing responses a 4th request is
\* made; when the 4th succeeds the call returns its body, and when the 4th fails too
\* the call raises the HttpError of that 4th response and asks no more.
C1_FourAttempts ==
    /\ Len(responses) <= 4
    /\ (Len(responses) = 3 /\ \A i \in 1..3 : Failed(responses[i])) => pc \in {"sleep", "request"}
    /\ (Len(responses) = 4 /\ \A i \in 1..3 : Failed(responses[i])) =>
           /\ Succeeded(responses[4]) =>
                  /\ pc = "unzip"
                  /\ zbytes = responses[4].content
                  /\ error.type = "None"
           /\ Failed(responses[4]) =>
                  /\ pc = "failed"
                  /\ error.type = "HttpError"
                  /\ error.status = responses[4].status
                  /\ error.year = Head(years)

\* three failing responses, then a fourth that succeeds with a non-empty archive
C1_Witness ==
    /\ pc = "unzip"
    /\ Len(responses) = 4
    /\ \A i \in 1..3 : Failed(responses[i])
    /\ responses[2].status # responses[3].status
    /\ zbytes # << >>

\* four failing responses, the last of another status than the third
C1_WitnessExhausted ==
    /\ pc = "failed"
    /\ Len(responses) = 4
    /\ responses[3].status # responses[4].status
    /\ error.status = responses[4].status

\* C2 as stated: an exception other than HttpError reaches the caller after exactly
\* one attempt and no wait.
C2_AsStated ==
    (pc = "failed" /\ error.type \in TransportExceptions) =>
        Len(responses) = 1 /\ slept = << >>

\* C2 amended: only responses of status >= 400 are retried; an exception of the
\* request itself ends the call at the attempt that raised it, with no wait after it
\* and no further request, and reaches the caller as it is; raised by the first
\* attempt, that is after exactly one attempt and no wait.
C2_TransportNotRetried ==
    /\ \A i \in 1..(Len(responses) - 1) : Failed(responses[i])
    /\ pc = "sleep" => Failed(responses[Len(responses)])
    /\ Len(slept) <= Len(responses)
    /\ (responses # << >> /\ Broke(responses[Len(responses)])) =>
           /\ pc = "failed"
           /\ error.type = responses[Len(responses)].exc
           /\ Len(slept) = Len(responses) - 1
    /\ (responses # << >> /\ Broke(responses[1])) =>
           Len(responses) = 1 /\ slept = << >>

\* the request raised on the second attempt, after one retried HTTP failure
C2_Witness ==
    /\ pc = "failed"
    /\ error.type \in TransportExceptions
    /\ Len(responses) = 2
    /\ Len(slept) = 1

\* C3 as stated: the first wait is 0.8 s, each later wait is twice the one before,
\* and no wait exceeds 10 s.
C3_AsStated ==
    /\ slept # << >> => slept[1] = 800
    /\ \A k \in 2..Len(slept) : slept[k] = 2 * slept[k - 1]
    /\ \A k \in DOMAIN slept : slept[k] <= 10000

\* C3 amended: the wait after the k-th failed attempt is 0.8 s * 2^(k-1), raised to
\* at least 1 s and capped at 10 s: 1 s, then 1.6 s, then 3.2 s; no wait is below
\* 1 s or above 10 s.
C3_Backoff ==
    /\ Len(slept) <= 3
    /\ \A k \in DOMAIN slept : slept[k] = <<1000, 1600, 3200>>[k]
    /\ \A k \in DOMAIN slept : slept[k] >= 1000 /\ slept[k] <= 10000

\* three waits were made in one call
C3_Witness ==
    /\ Len(slept) = 3
    /\ pc = "request"
    /\ attempt = 4

----------------------------------------------------------------------------
(* Claims about the output files, checked under Spec *)

\* the text of the years and dates the runs checked can meet
YearText(y) ==
    CASE y = 2023 -> <<"2", "0", "2", "3">>
      [] y = 2024 -> <<"2", "0", "2", "4">>
      [] y = 2025 -> <<"2", "0", "2", "5">>

DateText(d) ==
    CASE d = 20241224 -> <<"2", "0", "2", "4", "-", "1", "2", "-", "2", "4">>
      [] d = 20241231 -> <<"2", "0", "2", "4", "-", "1", "2", "-", "3", "1">>
      [] d = 20250107 -> <<"2", "0", "2", "5", "-", "0", "1", "-", "0", "7">>

\* what pandas makes of a date cell of the served files
ServedDate(cell) ==
    CASE cell = <<"2", "0", "2", "4", "-", "1", "2", "-", "2", "4">> -> 20241224
      [] cell = <<"2", "0", "2", "4", "-", "1", "2", "-", "3", "1">> -> 20241231
      [] cell = <<"2", "0", "2", "5", "-", "0", "1", "-", "0", "7">> -> 20250107
      [] OTHER -> 0

StampedPath(d, ext) ==
    [dir |-> YearText(d \div 10000), file |-> <<"c", "o", "t", "_", "d", "i", "s", "a", "g", "g", "_", "f", "u", "t", "_">> \o DateText(d) \o ext]

LatestPath(y, ext) ==
    [dir |-> YearText(y), file |-> <<"c", "o", "t", "_", "d", "i", "s", "a", "g", "g", "_", "f", "u", "t", "_", "l", "a", "t", "e", "s", "t", "_">> \o YearText(y) \o ext]

FourPaths(d) ==
    { StampedPath(d, <<".", "c", "s", "v">>), StampedPath(d, <<".", "p", "a", "r", "q", "u", "e", "t">>),
      LatestPath(d \div 10000, <<".", "c", "s", "v">>), LatestPath(d \div 10000, <<".", "p", "a", "r", "q", "u", "e", "t">>) }

\* the date of a row of a written table
WrittenDate(table, row) ==
    ServedDate(row[CHOOSE i \in DOMAIN table.columns : table.columns[i] = ReportDateCol])

BeforeWriting == {"request", "sleep", "unzip", "resolve", "select"}

EarlyFailures == {"HttpError", "RuntimeError", "EmptyDataError"} \cup TransportExceptions

\* C8: nothing under OUT_DIR is created or changed while the years are fetched and
\* loaded, the date column is found and the maximum date is taken; a run ended by a
\* fetch failure, an empty archive, a missing date column or a table with no
\* parseable date (an explicit error, never a run that goes on with no date or no
\* rows) leaves the directories and files as they were when it started.
C8_NoEarlyWrite ==
    /\ pc \in BeforeWriting => (fs = fs0 /\ dirs = dirs0)
    /\ (pc = "failed" /\ error.type \in EarlyFailures) => (fs = fs0 /\ dirs = dirs0)
    /\ pc \in WriterPcs \cup {"done"} =>
           /\ years = << >>
           /\ date_col # << >>
           /\ latest_date # 0
           /\ latest_week.rows # << >>
    /\ (pc = "failed" /\ fs # fs0) => error.type = "OSError"

\* a run stopped on a table with no parseable date while files of an earlier run exist
C8_Witness ==
    /\ pc = "failed"
    /\ error = AllNaT
    /\ DOMAIN fs # {}
    /\ fs = fs0

\* C9 as stated: after successful runs only, the "latest" files of every year a
\* report date was seen for exist and hold rows of the maximum date seen for it.
C9_AsStated ==
    (pc = "idle" /\ log.all_ok) =>
        \A d \in log.seen :
            LET y == d \div 10000
                top == CHOOSE m \in log.seen :
                           /\ m \div 10000 = y
                           /\ \A e \in log.seen : e \div 10000 = y => e <= m
                p == LatestPath(y, <<".", "p", "a", "r", "q", "u", "e", "t">>)
            IN  /\ p \in DOMAIN fs
                /\ \A i \in DOMAIN fs[p].rows : WrittenDate(fs[p], fs[p].rows[i]) = top

\* C9 amended: after successful runs only, the "latest" files exist exactly for the
\* years in which the maximum report date of some run fell, and those of a year hold
\* the latest-week rows of the most recent run whose maximum date fell in it.
C9_LastRunWins ==
    (pc = "idle" /\ log.all_ok) =>
        /\ \A y \in 2023..2025 :
               /\ LatestPath(y, <<".", "c", "s", "v">>) \in DOMAIN fs <=> YearText(y) \in DOMAIN log.last
               /\ LatestPath(y, <<".", "p", "a", "r", "q", "u", "e", "t">>) \in DOMAIN fs <=> YearText(y) \in DOMAIN log.last
        /\ \A y \in 2023..2025 :
               YearText(y) \in DOMAIN log.last =>
                   LET t == log.last[YearText(y)]
                   IN  /\ fs[LatestPath(y, <<".", "p", "a", "r", "q", "u", "e", "t">>)] = t
                       /\ fs[LatestPath(y, <<".", "c", "s", "v">>)] = <<t.columns>> \o t.rows

\* two successful runs, the second of an older maximum date: the "latest" files of
\* the year hold the older date although a newer one was seen
C9_Witness ==
    /\ pc = "idle"
    /\ log.all_ok
    /\ runs = 2
    /\ 20241231 \in log.seen
    /\ LatestPath(2024, <<".", "p", "a", "r", "q", "u", "e", "t">>) \in DOMAIN fs
    /\ \A i \in DOMAIN fs[LatestPath(2024, <<".", "p", "a", "r", "q", "u", "e", "t">>)].rows :
           WrittenDate(fs[LatestPath(2024, <<".", "p", "a", "r", "q", "u", "e", "t">>)],
                       fs[LatestPath(2024, <<".", "p", "a", "r", "q", "u", "e", "t">>)].rows[i]) = 20241224

\* C10: a run that succeeds with maximum date D has written exactly the four paths
\* cot_disagg_fut_<D> and cot_disagg_fut_latest_<year of D>, .csv and .parquet, under
\* the directory of the year of D; each holds the latest-week rows and nothing else;
\* every file that existed before is still there, unchanged unless it is one of the
\* four.
C10_FourPathsWritten ==
    pc = "done" =>
        /\ Cardinality(FourPaths(latest_date)) = 4
        /\ DOMAIN fs = DOMAIN fs0 \cup FourPaths(latest_date)
        /\ dirs = dirs0 \cup {YearText(latest_date \div 10000)}
        /\ \A p \in DOMAIN fs0 \ FourPaths(latest_date) : fs[p] = fs0[p]
        /\ fs[StampedPath(latest_date, <<".", "p", "a", "r", "q", "u", "e", "t">>)] = latest_week
        /\ fs[LatestPath(latest_date \div 10000, <<".", "p", "a", "r", "q", "u", "e", "t">>)] = latest_week
        /\ fs[StampedPath(latest_date, <<".", "c", "s", "v">>)] = <<latest_week.columns>> \o latest_week.rows
        /\ fs[LatestPath(latest_date \div 10000, <<".", "c", "s", "v">>)] = <<latest_week.columns>> \o latest_week.rows
        /\ \A i \in DOMAIN latest_week.rows :
               WrittenDate(latest_week, latest_week.rows[i]) = latest_date

\* a run succeeded in a year directory that is not the clock's year, kept the
\* date-stamped files of another date and replaced the "latest" files
C10_Witness ==
    /\ pc = "done"
    /\ latest_date \div 10000 # clock_year
    /\ \E p \in DOMAIN fs0 \ FourPaths(latest_date) : fs[p] = fs0[p]
    /\ LatestPath(latest_date \div 10000, <<".", "c", "s", "v">>) \in DOMAIN fs0
    /\ fs[LatestPath(latest_date \div 10000, <<".", "c", "s", "v">>)]
           # fs0[LatestPath(latest_date \div 10000, <<".", "c", "s", "v">>)]

====
